---- MODULE Spec2Model ----
(***************************************************************************)
(* CustomNavbarEffects (src/index.js): a controller that hides the navbar  *)
(* on downward scroll and shows it again on upward scroll.  The model      *)
(* holds the page (document, window, console), the controller's fields     *)
(* and one action per public operation or event dispatch.                  *)
(***************************************************************************)
EXTENDS Integers, FiniteSets, Sequences, TLC

\* ------------------------------------------------------------------ bounds

\* scroll positions are 0, 5, ..., 5 * MaxScrollIdx
MaxScrollIdx == 2
\* viewport sizes 0..MaxViewport; at viewport 0 the side paddings collapse
MaxViewport == 1
\* the parent of the main section has at most MaxChildren children, the main
\* section being the second of them (the only one when it has no sibling)
MaxChildren == 3

ScrollPositions == {5 * i : i \in 0..MaxScrollIdx}
Viewports == 0..MaxViewport

\* ------------------------------------------------------- program constants

NULL == "null"

DefaultScrollThreshold == 10
DefaultTransitionDuration == 200

DefaultConfig ==
  [ containerSelector          |-> "[data-framer-name=Main Navbar]",
    ctaBtnContainerSelector    |-> "[data-framer-name=CTA Container]",
    logoContainerSelector      |-> "[data-framer-name=Logo]",
    navbarMainSectionSelector  |-> "[data-framer-name=Navbar Main Section]",
    navbarItemsSectionSelector |-> "[data-framer-name=Nav Items]",
    scrollThreshold            |-> DefaultScrollThreshold,
    transitionDuration         |-> DefaultTransitionDuration ]

ConfigFields == DOMAIN DefaultConfig

SelectorFields ==
  { "containerSelector", "ctaBtnContainerSelector", "logoContainerSelector",
    "navbarMainSectionSelector", "navbarItemsSectionSelector" }

requiredElements == <<"container", "navbarMainSection", "navbarItemsSection">>

\* --------------------------------------------------------------- the page

\* elements of the page, named by their data-framer-name
MainSection == "Navbar Main Section"
NamedElements == {"Main Navbar", "CTA Container", "Logo", MainSection, "Nav Items"}
RequiredNamed == {"Main Navbar", MainSection, "Nav Items"}
OptionalNamed == {"CTA Container", "Logo"}

\* the documents: any required elements, with the optional ones or without
Pages == {req \cup opt : req \in SUBSET RequiredNamed, opt \in {{}, OptionalNamed}}

ChildNames == <<"child0", "child1", "child2", "child3", "child4", "child5">>

\* the children of the main section's parent: n children, the main section
\* the k-th of them (n = 0: the main section has no parent element)
ChildrenOf(n, k) == [i \in 1..n |-> IF i = k THEN MainSection ELSE ChildNames[i]]

AllElements == NamedElements \cup {ChildNames[i] : i \in 1..Len(ChildNames)}

\* a selector that matches no element of any page
NoMatchSelector == "#no-such-element"

\* values a caller passes for the options
ThresholdValues == {0, DefaultScrollThreshold}
DurationValues == {0, DefaultTransitionDuration, 300}

\* the option records callers pass: {}, {x: v} and a record of two fields
EmptyOptions == [f \in {} |-> 0]
TwoFields == ("scrollThreshold" :> 0) @@ ("transitionDuration" :> 300)

\* to the constructor
ConstructOptions ==
  {EmptyOptions, TwoFields, ("containerSelector" :> NoMatchSelector)}

\* to updateConfig
Partials ==
  {("scrollThreshold" :> v) : v \in ThresholdValues}
  \cup {("transitionDuration" :> v) : v \in DurationValues}
  \cup {("containerSelector" :> NoMatchSelector)}

VARIABLES
  \* document, window, console
  present,         \* the named elements the document holds
  parentChildren,  \* navbarMainSection.parentElement.children (<<>>: no parent)
  readyState,      \* document.readyState: "loading", or "interactive" for any
                   \* later value (the program tests for "loading" only)
  scrollY,         \* window.scrollY
  viewport,        \* window size, which fixes the layout width of each child
  inlineSizing,    \* whether an inline width decides an element's offsetWidth
  listeners,       \* the event types this controller's handlers are registered for
  classList,       \* container.classList
  style,           \* element -> inline style (opacity, width, transition)
  errorLog,        \* what console.error was called with
  \* the controller
  constructed,     \* whether new CustomNavbarEffects(options) has run
  config,          \* this.config
  elements,        \* this.elements
  dimensions,      \* this.dimensions
  scrollState,     \* this.scrollState
  \* history
  destroyed,       \* destroy() has been called
  measureLog,      \* document.readyState at each updateDimensions call of setup
  \* the caller
  held             \* the record the caller last got from an accessor

vars ==
  << present, parentChildren, readyState, scrollY, viewport, inlineSizing,
     listeners, classList, style, errorLog, constructed, config, elements,
     dimensions, scrollState, destroyed, measureLog, held >>

\* everything but what the caller holds
programVars ==
  << present, parentChildren, readyState, scrollY, viewport, inlineSizing,
     listeners, classList, style, errorLog, constructed, config, elements,
     dimensions, scrollState, destroyed, measureLog >>

pageVars == << present, parentChildren, inlineSizing >>

\* ---------------------------------------------------------------- helpers

\* { ...a, ...b }: the keys of both, b's value where both have the key
Spread(a, b) ==
  [k \in DOMAIN a \cup DOMAIN b |-> IF k \in DOMAIN b THEN b[k] ELSE a[k]]

\* obj[key], with NULL for a key the object does not have (undefined)
Get(obj, key) == IF key \in DOMAIN obj THEN obj[key] ELSE NULL

\* `${w}px`
Px(w) == ToString(w) \o "px"

\* array.join(sep)
RECURSIVE Join(_, _)
Join(seq, sep) ==
  IF Len(seq) = 0 THEN ""
  ELSE IF Len(seq) = 1 THEN seq[1]
  ELSE seq[1] \o sep \o Join(Tail(seq), sep)

Abs(n) == IF n < 0 THEN -n ELSE n

\* document.querySelector(selector)
querySelector(selector) ==
  LET hit == {e \in present : selector = "[data-framer-name=" \o e \o "]"}
  IN  IF hit = {} THEN NULL ELSE CHOOSE e \in hit : TRUE

\* HTMLCollection.item(i), zero-based
item(children, i) == IF i + 1 <= Len(children) THEN children[i + 1] ELSE NULL

\* the width the layout gives an element at viewport size v when nothing pins it
LayoutWidth(e, v) ==
  LET at == {i \in 1..Len(parentChildren) : parentChildren[i] = e}
  IN  IF at = {} THEN 0
      ELSE v * (90 - 10 * (CHOOSE i \in at : TRUE))

Widths == {v * (90 - 10 * i) : v \in Viewports, i \in 1..Len(ChildNames)} \cup {0}

\* element.offsetWidth in world s
offsetWidth(e, s) ==
  IF inlineSizing /\ s.style[e].width # ""
  THEN CHOOSE w \in Widths : Px(w) = s.style[e].width
  ELSE LayoutWidth(e, s.viewport)

NoStyle == [opacity |-> "", width |-> "", transition |-> ""]

\* ------------------------------------------------- the controller's methods
\* Each method is an operator from the world before the call to the world
\* after it.  A world s holds the controller's fields and the mutable part
\* of the page.

World ==
  [ readyState |-> readyState, scrollY |-> scrollY, viewport |-> viewport,
    listeners |-> listeners, classList |-> classList, style |-> style,
    errorLog |-> errorLog, config |-> config, elements |-> elements,
    dimensions |-> dimensions, scrollState |-> scrollState,
    measureLog |-> measureLog, thrown |-> NULL ]

EmptyObject == [k \in {} |-> NULL]

\* constructor, lines 18-39: the fields before init() runs
constructorFields(s, options) ==
  [s EXCEPT !.config = Spread(DefaultConfig, options),
            !.elements = EmptyObject,
            !.dimensions = EmptyObject,
            !.scrollState = [lastScrollY |-> 0, isScrollingUp |-> FALSE,
                             isInitialized |-> FALSE]]

\* the validation that stops at the first missing element
missingElements_firstOnly(els) ==
  LET all == SelectSeq(requiredElements, LAMBDA key : els[key] = NULL)
  IN  IF Len(all) = 0 THEN all ELSE <<all[1]>>

missingElements(els) == SelectSeq(requiredElements, LAMBDA key : els[key] = NULL)

cacheElements(s) ==
  LET found ==
        [ container          |-> querySelector(s.config.containerSelector),
          ctaBtnContainer    |-> querySelector(s.config.ctaBtnContainerSelector),
          logoContainer      |-> querySelector(s.config.logoContainerSelector),
          navbarMainSection  |-> querySelector(s.config.navbarMainSectionSelector),
          navbarItemsSection |-> querySelector(s.config.navbarItemsSectionSelector) ]
      missing == missingElements(found)
  IN  IF Len(missing) > 0
      THEN [s EXCEPT !.elements = found,
                     !.thrown = "Error: Required elements not found: "
                                  \o Join(missing, ", ")]
      ELSE IF parentChildren = <<>>
      THEN [s EXCEPT !.elements = found,
                     !.thrown = "TypeError: parentElement is null"]
      ELSE [s EXCEPT !.elements =
              Spread(found, [leftEmpty  |-> item(parentChildren, 0),
                             rightEmpty |-> item(parentChildren, 2)])]

SetTransition(s, e, value) ==
  IF e # NULL THEN [s EXCEPT !.style[e].transition = value] ELSE s

setupTransitions(s) ==
  LET transitionStyle ==
        "opacity " \o ToString(s.config.transitionDuration) \o "ms ease-in-out"
      widthTransitionStyle ==
        "width " \o ToString(s.config.transitionDuration) \o "ms ease-in-out"
      s1 == SetTransition(s, Get(s.elements, "navbarItemsSection"), transitionStyle)
      s2 == SetTransition(s1, Get(s.elements, "leftEmpty"), widthTransitionStyle)
  IN  SetTransition(s2, Get(s.elements, "rightEmpty"), widthTransitionStyle)

\* measuring that keeps a width already in the cache
MeasureSpacer_keepsFirst(s, role, key) ==
  LET e == Get(s.elements, role)
      w == IF key \in DOMAIN s.dimensions THEN s.dimensions[key] ELSE offsetWidth(e, s)
  IN  IF e # NULL
      THEN [s EXCEPT !.dimensions = Spread(@, (key :> w)),
                     !.style[e].width = Px(w)]
      ELSE s

\* lines 128-131 and 133-136: measure one spacer, cache and pin its width
MeasureSpacer(s, role, key) ==
  LET e == Get(s.elements, role)
      w == offsetWidth(e, s)
  IN  IF e # NULL
      THEN [s EXCEPT !.dimensions = Spread(@, (key :> w)),
                     !.style[e].width = Px(w)]
      ELSE s

updateDimensions(s) ==
  MeasureSpacer(MeasureSpacer(s, "leftEmpty", "leftEmptyWidth"),
                "rightEmpty", "rightEmptyWidth")

\* lines 185-187 and 189-191: restore one spacer to its cached width
RestoreSpacer(s, role, key) ==
  LET e == Get(s.elements, role)
  IN  IF e # NULL /\ key \in DOMAIN s.dimensions /\ s.dimensions[key] # 0
      THEN [s EXCEPT !.style[e].width = Px(s.dimensions[key])]
      ELSE s

SetOpacity(s, value) ==
  LET e == Get(s.elements, "navbarItemsSection")
  IN  IF e # NULL THEN [s EXCEPT !.style[e].opacity = value] ELSE s

\* showNavbar that restores the right spacer to the left spacer's cached width
showNavbar_rightFromLeft(s) ==
  LET s1 == [s EXCEPT !.classList = (@ \ {"scroll-down"}) \cup {"scroll-up"}]
      s2 == SetOpacity(s1, "1")
  IN  RestoreSpacer(RestoreSpacer(s2, "leftEmpty", "leftEmptyWidth"),
                    "rightEmpty", "leftEmptyWidth")

\* showNavbar that leaves the scroll-down class in place
showNavbar_keepsScrollDown(s) ==
  LET s1 == [s EXCEPT !.classList = @ \cup {"scroll-up"}]
      s2 == SetOpacity(s1, "1")
  IN  RestoreSpacer(RestoreSpacer(s2, "leftEmpty", "leftEmptyWidth"),
                    "rightEmpty", "rightEmptyWidth")

showNavbar(s) ==
  LET s1 == [s EXCEPT !.classList = (@ \ {"scroll-down"}) \cup {"scroll-up"}]
      s2 == SetOpacity(s1, "1")
  IN  RestoreSpacer(RestoreSpacer(s2, "leftEmpty", "leftEmptyWidth"),
                    "rightEmpty", "rightEmptyWidth")

\* lines 206-208 and 210-212
CollapseSpacer(s, role) ==
  LET e == Get(s.elements, role)
  IN  IF e # NULL THEN [s EXCEPT !.style[e].width = "0px"] ELSE s

\* hideNavbar that leaves the scroll-up class in place
hideNavbar_keepsScrollUp(s) ==
  LET s1 == [s EXCEPT !.classList = @ \cup {"scroll-down"}]
      s2 == SetOpacity(s1, "0")
  IN  CollapseSpacer(CollapseSpacer(s2, "leftEmpty"), "rightEmpty")

hideNavbar(s) ==
  LET s1 == [s EXCEPT !.classList = (@ \ {"scroll-up"}) \cup {"scroll-down"}]
      s2 == SetOpacity(s1, "0")
  IN  CollapseSpacer(CollapseSpacer(s2, "leftEmpty"), "rightEmpty")

updateNavbarState(s, isScrollingUp) ==
  IF isScrollingUp THEN showNavbar(s) ELSE hideNavbar(s)

\* handleScroll that records the position before it tests the threshold
handleScroll_recordsEveryEvent(s) ==
  IF ~s.scrollState.isInitialized THEN s
  ELSE LET currentScrollY == s.scrollY
           scrollDelta == Abs(currentScrollY - s.scrollState.lastScrollY)
           s0 == [s EXCEPT !.scrollState.lastScrollY = currentScrollY]
       IN  IF scrollDelta < s.config.scrollThreshold THEN s0
           ELSE updateNavbarState(s0, currentScrollY < s.scrollState.lastScrollY)

handleScroll(s) ==
  IF ~s.scrollState.isInitialized THEN s
  ELSE LET currentScrollY == s.scrollY
           scrollDelta == Abs(currentScrollY - s.scrollState.lastScrollY)
       IN  IF scrollDelta < s.config.scrollThreshold THEN s
           ELSE LET isScrollingUp == currentScrollY < s.scrollState.lastScrollY
                    s1 == updateNavbarState(s, isScrollingUp)
                IN  [s1 EXCEPT !.scrollState.lastScrollY = currentScrollY]

handleResize(s) == updateDimensions(s)

\* the setup's calls of updateDimensions are logged with the readyState they ran in
LogMeasure(s) == [s EXCEPT !.measureLog = Append(@, s.readyState)]

handleLoad(s) ==
  LET s1 == LogMeasure(updateDimensions(s))
  IN  [s1 EXCEPT !.scrollState.lastScrollY = s.scrollY]

bindEvents(s) ==
  LET s1 == [s EXCEPT !.listeners = @ \cup {"scroll", "resize"}]
  IN  IF s.readyState = "loading"
      THEN [s1 EXCEPT !.listeners = @ \cup {"DOMContentLoaded"}]
      ELSE handleLoad(s1)

init(s) ==
  LET s1 == cacheElements(s)
      s2 == setupTransitions(s1)
      s3 == bindEvents(s2)
      s4 == LogMeasure(updateDimensions(s3))
  IN  IF s1.thrown # NULL
      THEN [s1 EXCEPT !.thrown = NULL,
                      !.errorLog = Append(@, <<"CustomNavbarEffects initialization failed:",
                                               s1.thrown>>)]
      ELSE [s4 EXCEPT !.scrollState.isInitialized = TRUE]

\* updateConfig that merges in the wrong order: { ...newConfig, ...this.config }
updateConfig_oldWins(s, newConfig) ==
  LET s1 == [s EXCEPT !.config = Spread(newConfig, s.config)]
  IN  IF "transitionDuration" \in DOMAIN newConfig /\ newConfig.transitionDuration # 0
      THEN setupTransitions(s1)
      ELSE s1

\* updateConfig that resolves the selectors again after merging
updateConfig_resolvesAgain(s, newConfig) ==
  LET s1 == [s EXCEPT !.config = Spread(s.config, newConfig)]
      s2 == [s1 EXCEPT !.elements = cacheElements(s1).elements]
  IN  IF "transitionDuration" \in DOMAIN newConfig /\ newConfig.transitionDuration # 0
      THEN setupTransitions(s2)
      ELSE s2

updateConfig(s, newConfig) ==
  LET s1 == [s EXCEPT !.config = Spread(s.config, newConfig)]
  IN  IF "transitionDuration" \in DOMAIN newConfig /\ newConfig.transitionDuration # 0
      THEN setupTransitions(s1)
      ELSE s1

\* destroy that leaves the resize handler registered
destroy_keepsResize(s) ==
  [s EXCEPT !.listeners = @ \ {"scroll", "DOMContentLoaded"},
            !.scrollState.isInitialized = FALSE]

destroy(s) ==
  [s EXCEPT !.listeners = @ \ {"scroll", "resize", "DOMContentLoaded"},
            !.scrollState.isInitialized = FALSE]

\* the caller holds no record
NoRecord == [of |-> "none", own |-> FALSE, written |-> {}]

\* an accessor that hands out the controller's own record
Returned_own(field) == [of |-> field, own |-> TRUE, written |-> {}]

\* the object the caller of an accessor receives: { ...this[field] } is a new
\* object, not the controller's own, and the caller has written none of its
\* fields yet
Returned(field) == [of |-> field, own |-> FALSE, written |-> {}]

getScrollState(s) == [k \in DOMAIN s.scrollState |-> s.scrollState[k]]

getConfig(s) == [k \in DOMAIN s.config |-> s.config[k]]

\* ---------------------------------------------------------------- actions

\* the state after a call that leaves world t
Becomes(t) ==
  \E w \in {t} :
    /\ scrollY' = w.scrollY
    /\ viewport' = w.viewport
    /\ readyState' = w.readyState
    /\ config' = w.config
    /\ listeners' = w.listeners
    /\ classList' = w.classList
    /\ scrollState' = w.scrollState
    /\ dimensions' = w.dimensions
    /\ elements' = w.elements
    /\ errorLog' = w.errorLog
    /\ measureLog' = w.measureLog
    /\ style' = w.style

\* event dispatch: the handler runs if it is registered for the event type
Dispatch(type, s, handled) == IF type \in s.listeners THEN handled ELSE s

Init ==
  /\ present \in Pages
  /\ \/ MainSection \notin present /\ parentChildren = <<>>
     \/ present = NamedElements /\ parentChildren = <<>>
     \/ \E n \in 1..MaxChildren :
          /\ MainSection \in present
          /\ present = NamedElements \/ n = 3
          /\ parentChildren = ChildrenOf(n, IF n = 1 THEN 1 ELSE 2)
  /\ readyState \in {"loading", "interactive"}
  /\ scrollY \in ScrollPositions
  /\ viewport \in Viewports
  /\ inlineSizing \in (IF RequiredNamed \subseteq present THEN BOOLEAN ELSE {TRUE})
  /\ listeners = {}
  /\ classList = {}
  /\ style = [e \in AllElements |-> NoStyle]
  /\ errorLog = <<>>
  /\ constructed = FALSE
  /\ config = DefaultConfig
  /\ elements = EmptyObject
  /\ dimensions = EmptyObject
  /\ scrollState = [lastScrollY |-> 0, isScrollingUp |-> FALSE, isInitialized |-> FALSE]
  /\ destroyed = FALSE
  /\ measureLog = <<>>
  /\ held = NoRecord

\* new CustomNavbarEffects(options)
Construct(options) ==
  /\ ~constructed
  /\ Becomes(init(constructorFields(World, options)))
  /\ constructed' = TRUE
  /\ UNCHANGED << pageVars, destroyed, held >>

\* the window is scrolled to y and a scroll event is dispatched
ScrollEvent(y) ==
  /\ scrollY' = y
  /\ LET s == [World EXCEPT !.scrollY = y]
     IN  Becomes(Dispatch("scroll", s, handleScroll(s)))
  /\ UNCHANGED << pageVars, constructed, destroyed, held >>

\* the window is resized to viewport size v and a resize event is dispatched
ResizeEvent(v) ==
  /\ viewport' = v
  /\ LET s == [World EXCEPT !.viewport = v]
     IN  Becomes(Dispatch("resize", s, handleResize(s)))
  /\ UNCHANGED << pageVars, constructed, destroyed, held >>

\* the document finishes parsing: DOMContentLoaded is dispatched, once
DOMContentLoaded ==
  /\ readyState = "loading"
  /\ LET s == [World EXCEPT !.readyState = "interactive"]
     IN  Becomes(Dispatch("DOMContentLoaded", s, handleLoad(s)))
  /\ UNCHANGED << pageVars, constructed, destroyed, held >>

UpdateConfig(newConfig) ==
  /\ constructed
  /\ Becomes(updateConfig(World, newConfig))
  /\ UNCHANGED << pageVars, constructed, destroyed, held >>

Destroy ==
  /\ constructed
  /\ Becomes(destroy(World))
  /\ destroyed' = TRUE
  /\ UNCHANGED << pageVars, constructed, held >>

Next ==
  \/ \E options \in ConstructOptions : Construct(options)
  \/ \E y \in ScrollPositions : ScrollEvent(y)
  \/ \E v \in Viewports : ResizeEvent(v)
  \/ DOMContentLoaded
  \/ \E newConfig \in Partials : UpdateConfig(newConfig)
  \/ Destroy

Spec == Init /\ [][Next]_vars

\* ------------------------------------------------ the accessors' callers

\* record = navbarEffects.getScrollState()
GetScrollState ==
  /\ constructed
  /\ held' = Returned("scrollState")
  /\ UNCHANGED programVars

\* record = navbarEffects.getConfig()
GetConfig ==
  /\ constructed
  /\ held' = Returned("config")
  /\ UNCHANGED programVars

\* the fields a caller writes in a record it holds, with values the controller
\* never gives them
CallerValues ==
  [scrollState |-> [lastScrollY |-> -1],
   config      |-> [scrollThreshold |-> -1, containerSelector |-> ""]]

\* record[field] = value: a write to the controller's own object is a write to
\* the controller's field
CallerWrites(field) ==
  /\ held.of \in DOMAIN CallerValues
  /\ field \in DOMAIN CallerValues[held.of] \ held.written
  /\ held' = [held EXCEPT !.written = @ \cup {field}]
  /\ IF held.own /\ held.of = "scrollState"
     THEN scrollState' = [scrollState EXCEPT ![field] = CallerValues.scrollState[field]]
     ELSE UNCHANGED scrollState
  /\ IF held.own /\ held.of = "config"
     THEN config' = [config EXCEPT ![field] = CallerValues.config[field]]
     ELSE UNCHANGED config
  /\ UNCHANGED << present, parentChildren, readyState, scrollY, viewport,
                  inlineSizing, listeners, classList, style, errorLog,
                  constructed, elements, dimensions, destroyed, measureLog >>

\* the README's page, at the top
InitAccessors ==
  /\ Init
  /\ present = NamedElements
  /\ Len(parentChildren) = 3
  /\ scrollY = 0
  /\ viewport = MaxViewport
  /\ inlineSizing

NextAccessors ==
  \/ Next
  \/ GetScrollState
  \/ GetConfig
  \/ \E field \in {"lastScrollY", "scrollThreshold", "containerSelector"} :
       CallerWrites(field)

SpecAccessors == InitAccessors /\ [][NextAccessors]_vars

\* ----------------------------------------------------------------- claims

SpacerRoles == {"leftEmpty", "rightEmpty"}
DimensionKey(role) == role \o "Width"
ItemsSection == Get(elements, "navbarItemsSection")
PresentSpacers == {role \in SpacerRoles : Get(elements, role) # NULL}

\* a scroll event to position y that an initialized controller handles and
\* whose distance from the last recorded position meets the threshold
Qualifies(y) ==
  /\ scrollState.isInitialized
  /\ Abs(y - scrollState.lastScrollY) >= config.scrollThreshold

\* what a scroll event may change on the page
VisualState ==
  << classList, style[ItemsSection].opacity,
     [role \in PresentSpacers |-> style[elements[role]].width] >>

(* C1: a scroll event handled by an initialized controller whose distance   *)
(* from lastScrollY is below scrollThreshold leaves the container's         *)
(* classes, the items-section opacity, both spacer widths and lastScrollY   *)
(* unchanged.                                                               *)
C1_SubThresholdScrollChangesNothing ==
  [][\A y \in ScrollPositions :
       ( /\ scrollState.isInitialized
         /\ Abs(y - scrollState.lastScrollY) < config.scrollThreshold
         /\ ScrollEvent(y) )
       => /\ VisualState' = VisualState
          /\ scrollState'.lastScrollY = scrollState.lastScrollY]_vars

\* a sub-threshold scroll was handled: the window is off the recorded position
\* by less than the threshold, after an earlier qualifying scroll
C1_Witness ==
  /\ scrollState.isInitialized
  /\ classList # {}
  /\ scrollY # scrollState.lastScrollY
  /\ Abs(scrollY - scrollState.lastScrollY) < config.scrollThreshold

HiddenState ==
  /\ "scroll-down" \in classList
  /\ "scroll-up" \notin classList
  /\ style[ItemsSection].opacity = "0"
  /\ \A role \in PresentSpacers : style[elements[role]].width = "0px"

(* C2: a qualifying scroll event away from the page top (scrollY above      *)
(* lastScrollY) ends hidden: class scroll-down and not scroll-up, opacity   *)
(* '0', every present spacer at '0px', lastScrollY the new scrollY.         *)
C2_QualifyingScrollDownHides ==
  [][\A y \in ScrollPositions :
       (Qualifies(y) /\ y > scrollState.lastScrollY /\ ScrollEvent(y))
       => (HiddenState' /\ scrollState'.lastScrollY = y)]_vars

\* hidden after having been shown, with a spacer collapsed
C2_Witness ==
  /\ scrollState.isInitialized
  /\ HiddenState
  /\ PresentSpacers # {}
  /\ scrollState.lastScrollY = scrollY
  /\ scrollY > 0

ShownState ==
  /\ "scroll-up" \in classList
  /\ "scroll-down" \notin classList
  /\ style[ItemsSection].opacity = "1"
  /\ \A role \in PresentSpacers :
       /\ DimensionKey(role) \in DOMAIN dimensions
       /\ style[elements[role]].width = Px(dimensions[DimensionKey(role)])

(* C3: a qualifying scroll event toward the page top (scrollY below         *)
(* lastScrollY) ends shown: class scroll-up and not scroll-down, opacity    *)
(* '1', every present spacer at its cached width in px, lastScrollY the     *)
(* new scrollY.                                                             *)
C3_QualifyingScrollUpShows ==
  [][\A y \in ScrollPositions :
       (Qualifies(y) /\ y < scrollState.lastScrollY /\ ScrollEvent(y))
       => (ShownState' /\ scrollState'.lastScrollY = y)]_vars

\* shown with both spacers restored to distinct nonzero cached widths
C3_Witness ==
  /\ scrollState.isInitialized
  /\ ShownState
  /\ PresentSpacers = SpacerRoles
  /\ dimensions.leftEmptyWidth # 0
  /\ dimensions.rightEmptyWidth # 0
  /\ dimensions.leftEmptyWidth # dimensions.rightEmptyWidth
  /\ scrollState.lastScrollY = scrollY

RequiredRoles == {requiredElements[i] : i \in 1..Len(requiredElements)}

\* the required roles whose selector, under options, finds no element
AbsentRequired(options) ==
  {key \in RequiredRoles :
     querySelector(Spread(DefaultConfig, options)[key \o "Selector"]) = NULL}

\* the ways to list the members of S, each once
Listings(S) ==
  {seq \in [1..Cardinality(S) -> S] : \A i, j \in DOMAIN seq : seq[i] = seq[j] => i = j}

RequiredElementsErrors(S) ==
  {<<"CustomNavbarEffects initialization failed:",
     "Error: Required elements not found: " \o Join(names, ", ")>> : names \in Listings(S)}

AllRequiredElementsErrors ==
  UNION {RequiredElementsErrors(S) : S \in SUBSET RequiredRoles}

ConstructionFailed == constructed /\ errorLog # <<>>

(* C4: when a required role (container, navbarMainSection,                  *)
(* navbarItemsSection) is absent, construction reports one error that       *)
(* lists exactly the absent required roles, registers no handler and        *)
(* leaves isInitialized false, and no later scroll event changes a class    *)
(* or a style; the absence of optional roles alone causes no such error.    *)
C4_MissingRequiredElementsFailConstruction ==
  [][ /\ \A options \in ConstructOptions :
           Construct(options) =>
             IF AbsentRequired(options) # {}
             THEN /\ Len(errorLog') = 1
                  /\ errorLog'[1] \in RequiredElementsErrors(AbsentRequired(options))
                  /\ listeners' = {}
                  /\ ~scrollState'.isInitialized
             ELSE \A i \in DOMAIN errorLog' : errorLog'[i] \notin AllRequiredElementsErrors
      /\ ConstructionFailed =>
           /\ listeners' = {}
           /\ ~scrollState'.isInitialized
           /\ errorLog' = errorLog
           /\ (\E y \in ScrollPositions : ScrollEvent(y)) => UNCHANGED <<classList, style>>
    ]_vars

\* construction failed with two required roles absent, and the window was
\* scrolled afterwards (lastScrollY is 0 from the constructor)
C4_Witness ==
  /\ ConstructionFailed
  /\ Cardinality({key \in RequiredRoles : elements[key] = NULL}) = 2
  /\ "CTA Container" \notin present
  /\ scrollY # 0

\* construction succeeded on a page without the optional elements
C4_OptionalAbsentWitness ==
  /\ scrollState.isInitialized
  /\ present = RequiredNamed

(* C5: after destroy() no scroll, resize or DOMContentLoaded event changes  *)
(* the container classes, an inline style, the dimension cache or           *)
(* lastScrollY, and isInitialized stays false: no operation sets it back.   *)
C5_DestroyedControllerIsInert ==
  [][destroyed =>
       /\ ~scrollState'.isInitialized
       /\ ( \/ \E y \in ScrollPositions : ScrollEvent(y)
            \/ \E v \in Viewports : ResizeEvent(v)
            \/ DOMContentLoaded )
          => UNCHANGED <<classList, style, dimensions, scrollState>>
    ]_vars

\* a controller destroyed after a qualifying scroll, with the window since
\* scrolled by no less than any threshold, resized off the measured layout
\* and the document loaded
C5_Witness ==
  /\ destroyed
  /\ classList # {}
  /\ Abs(scrollY - scrollState.lastScrollY) >= DefaultScrollThreshold
  /\ readyState = "interactive"
  /\ "leftEmptyWidth" \in DOMAIN dimensions
  /\ ~inlineSizing
  /\ dimensions.leftEmptyWidth # LayoutWidth(elements.leftEmpty, viewport)

(* C6: the record getScrollState() returns carries the current scroll       *)
(* direction: after a qualifying scroll event isScrollingUp is true iff     *)
(* that scroll moved toward the page top.                                   *)
C6_ScrollStateCarriesDirection ==
  [][\A y \in ScrollPositions :
       (Qualifies(y) /\ ScrollEvent(y))
       => (getScrollState(World).isScrollingUp)' = (y < scrollState.lastScrollY)]_vars

(* C7: the setup's dimension measurement (updateDimensions before any       *)
(* resize event) happens exactly once and only after the document has       *)
(* finished loading, whether the controller is constructed while            *)
(* document.readyState is 'loading' or after.                               *)
C7_InitialMeasurementOnceAfterLoad ==
  (constructed /\ ~ConstructionFailed) =>
     /\ \A i \in DOMAIN measureLog : measureLog[i] # "loading"
     /\ Len(measureLog) <= 1
     /\ readyState # "loading" => Len(measureLog) = 1

TransitionOf(property) ==
  property \o " " \o ToString(config.transitionDuration) \o "ms ease-in-out"

(* C8: an updateConfig whose partial carries transitionDuration (any        *)
(* number, 0 included) re-runs transition setup; so in every state of a     *)
(* successfully constructed controller the inline transitions of the        *)
(* items-section and of every present spacer name config.transitionDuration.*)
C8_TransitionsFollowConfiguredDuration ==
  (constructed /\ ~ConstructionFailed) =>
     /\ style[ItemsSection].transition = TransitionOf("opacity")
     /\ \A role \in PresentSpacers :
          style[elements[role]].transition = TransitionOf("width")

(* C9: updateConfig({x: v}) followed by getConfig() returns x = v and       *)
(* every other field as it was before the update.                           *)
C9_UpdateConfigRoundTrip ==
  constructed =>
    \A newConfig \in Partials :
      \E before \in {getConfig(World)} :
        \E after \in {getConfig(updateConfig(World, newConfig))} :
          /\ DOMAIN after = ConfigFields
          /\ \A f \in ConfigFields :
               after[f] = IF f \in DOMAIN newConfig THEN newConfig[f] ELSE before[f]

\* three fields were updated, the selector after the container was cached
C9_Witness ==
  /\ constructed
  /\ Get(elements, "container") # NULL
  /\ getConfig(World).containerSelector = NoMatchSelector
  /\ getConfig(World).scrollThreshold = 0
  /\ getConfig(World).transitionDuration = 300
  /\ getConfig(World).navbarItemsSectionSelector = DefaultConfig.navbarItemsSectionSelector

(* C10: with all required elements found and fewer than 3 children in the   *)
(* main-section's parent, construction succeeds without error and neither   *)
(* leftEmpty nor rightEmpty refers to an element, so no step ever writes a  *)
(* width on any element, the main-section included.                         *)
C10_FewerThanThreeChildrenMeansNoSpacers ==
  ( /\ constructed
    /\ \A key \in RequiredRoles : Get(elements, key) # NULL
    /\ Len(parentChildren) \in {1, 2} )
  => /\ errorLog = <<>>
     /\ Get(elements, "leftEmpty") = NULL
     /\ Get(elements, "rightEmpty") = NULL
     /\ \A e \in AllElements : style[e].width = ""

(* C11: after a resize event handled by a live controller, for each present *)
(* spacer the dimension cache holds the width the spacer rendered at when   *)
(* the event arrived, whatever was cached before, and the spacer's inline   *)
(* width is that cached value in px.                                        *)
C11_ResizeRemeasuresAndPins ==
  [][\A v \in Viewports :
       ("resize" \in listeners /\ ResizeEvent(v))
       => \A role \in PresentSpacers :
            /\ DimensionKey(role) \in DOMAIN dimensions'
            /\ dimensions'[DimensionKey(role)] =
                 offsetWidth(elements[role], [World EXCEPT !.viewport = v])
            /\ style'[elements[role]].width = Px(dimensions'[DimensionKey(role)])]_vars

\* a resize was handled after a hide: the container is marked scroll-down
\* and yet both spacers are pinned to their cached, nonzero layout widths
C11_Witness ==
  /\ "resize" \in listeners
  /\ ~inlineSizing
  /\ "scroll-down" \in classList
  /\ PresentSpacers = SpacerRoles
  /\ \A role \in SpacerRoles :
       /\ dimensions[DimensionKey(role)] = LayoutWidth(elements[role], viewport)
       /\ dimensions[DimensionKey(role)] # 0
       /\ style[elements[role]].width = Px(dimensions[DimensionKey(role)])

\* the world after the window is scrolled to y and the scroll event dispatched
AfterScroll(s, y) ==
  LET t == [s EXCEPT !.scrollY = y] IN Dispatch("scroll", t, handleScroll(t))

\* the world after the window is resized to v and the resize event dispatched
AfterResize(s, v) ==
  LET t == [s EXCEPT !.viewport = v] IN Dispatch("resize", t, handleResize(t))

(* C12: a resize event and a qualifying scroll event commute: from every    *)
(* reachable state of a live controller, resize-then-scroll and             *)
(* scroll-then-resize end with the same dimension cache, scroll state,      *)
(* container classes and inline styles, and so does any later scroll.       *)
C12_ResizeAndScrollCommute ==
  scrollState.isInitialized =>
    \A v \in Viewports, y \in ScrollPositions :
      Qualifies(y) =>
        \E a \in {AfterScroll(AfterResize(World, v), y)} :
          \E b \in {AfterResize(AfterScroll(World, y), v)} :
            /\ a.dimensions = b.dimensions
            /\ a.scrollState = b.scrollState
            /\ a.classList = b.classList
            /\ a.style = b.style
            /\ \A y2 \in ScrollPositions : AfterScroll(a, y2) = AfterScroll(b, y2)

\* the container's marker classes and the items-section opacity agree
MarkersAgree ==
  /\ ~({"scroll-up", "scroll-down"} \subseteq classList)
  /\ ItemsSection # NULL =>
       /\ "scroll-down" \in classList <=> style[ItemsSection].opacity = "0"
       /\ "scroll-up" \in classList <=> style[ItemsSection].opacity = "1"

(* C13: the container never carries both scroll-up and scroll-down; after   *)
(* a qualifying scroll has been handled it carries exactly one of them,     *)
(* scroll-down exactly when the items-section opacity is '0' and scroll-up  *)
(* exactly when it is '1'.                                                  *)
C13_MarkerClassesExclusive ==
  [][ /\ MarkersAgree /\ MarkersAgree'
      /\ classList # {} => Cardinality(classList') = 1
      /\ \A y \in ScrollPositions :
           ("scroll" \in listeners /\ Qualifies(y) /\ ScrollEvent(y))
           => /\ Cardinality(classList') = 1
              /\ style'[ItemsSection].opacity \in {"0", "1"}
    ]_vars

\* shown again after a hide: scroll-up alone, opacity '1', while the spacers
\* still carry the collapsed width the hide gave them
C13_Witness ==
  /\ scrollState.isInitialized
  /\ classList = {"scroll-up"}
  /\ style[ItemsSection].opacity = "1"
  /\ PresentSpacers = SpacerRoles
  /\ \A role \in SpacerRoles : style[elements[role]].width = "0px"
  /\ LayoutWidth(elements.leftEmpty, viewport) # 0

(* C14: the scroll delta is taken against the last recorded position only:  *)
(* from every state of a live controller, a sub-threshold scroll event      *)
(* (to either side of lastScrollY) put before a scroll event to y leaves    *)
(* the state after the event at y as it would be without it, and an event   *)
(* at y triggers a transition as soon as y is a threshold away from         *)
(* lastScrollY, wherever the sub-threshold events before it left the window.*)
C14_DeltaAgainstLastRecordedPosition ==
  (scrollState.isInitialized /\ "scroll" \in listeners) =>
    \A y \in ScrollPositions :
      \E direct \in {AfterScroll(World, y)} :
        /\ \A y1 \in ScrollPositions :
             Abs(y1 - scrollState.lastScrollY) < config.scrollThreshold =>
               /\ AfterScroll(AfterScroll(World, y1), y) = direct
               /\ \A y2 \in ScrollPositions :
                    Abs(y2 - scrollState.lastScrollY) < config.scrollThreshold =>
                      AfterScroll(AfterScroll(AfterScroll(World, y1), y2), y) = direct
        /\ Abs(y - scrollState.lastScrollY) >= config.scrollThreshold =>
             /\ direct.scrollState.lastScrollY = y
             /\ direct.classList =
                  {IF y < scrollState.lastScrollY THEN "scroll-up" ELSE "scroll-down"}

\* in the middle of a run of sub-threshold movements: the window is off the
\* recorded position by less than the threshold, and ScrollPositions holds a
\* position further the same way that is a threshold away from the record
\* but less than that from the window
C14_Witness ==
  /\ scrollState.isInitialized
  /\ "scroll" \in listeners
  /\ scrollY > scrollState.lastScrollY
  /\ scrollY - scrollState.lastScrollY < config.scrollThreshold
  /\ \E y \in ScrollPositions :
       /\ y - scrollState.lastScrollY >= config.scrollThreshold
       /\ y - scrollY < config.scrollThreshold

(* C15: the first scroll event the controller acts on takes its delta       *)
(* against the position the page is actually at, not against 0: when        *)
(* scroll handling becomes enabled (constructed while loading or after),    *)
(* a scroll event to y is acted on exactly when y is a threshold away from  *)
(* the window's position.                                                   *)
C15_FirstDeltaAgainstActualPosition ==
  [][(~scrollState.isInitialized /\ scrollState'.isInitialized) =>
       \A y \in ScrollPositions :
         (AfterScroll(World, y)' # [World EXCEPT !.scrollY = y]')
         <=> (Abs(y - scrollY') >= config'.scrollThreshold)]_vars

(* C16: no scroll event changes the element cache or the dimension cache;   *)
(* once the controller is constructed no operation rewrites the element     *)
(* cache, updateConfig with other selectors included, and the dimension     *)
(* cache changes only in the handling of load and resize events.            *)
C16_CachesChangeOnlyInLoadAndResize ==
  [][ /\ constructed => elements' = elements
      /\ (constructed /\ dimensions' # dimensions) =>
           \/ \E v \in Viewports : ResizeEvent(v)
           \/ DOMContentLoaded
      /\ (\E y \in {scrollY'} : ScrollEvent(y)) => UNCHANGED <<elements, dimensions>>
    ]_vars

\* a live controller, its container cached, whose container selector was
\* updated to one that matches nothing, and that handled a qualifying
\* downward scroll and then a resize that measured the spacers again
C16_Witness ==
  /\ scrollState.isInitialized
  /\ elements.container # NULL
  /\ config.containerSelector = NoMatchSelector
  /\ "scroll-down" \in classList
  /\ ~inlineSizing
  /\ PresentSpacers = SpacerRoles
  /\ dimensions.leftEmptyWidth # 0
  /\ style[elements.leftEmpty].width = Px(dimensions.leftEmptyWidth)

(* C18: where an inline width decides a spacer's rendered width, a navbar   *)
(* whose most recent visual update was a show has every present spacer      *)
(* whose width measured at load was nonzero back at that inline width.      *)
(* Stated from the states in which no visual update has happened yet, so    *)
(* that the cache holds the load measurement: after a scroll, a resize and  *)
(* another scroll that ends shown, such a spacer is at the load width.      *)
C18_ShowRestoresLoadWidth ==
  (scrollState.isInitialized /\ inlineSizing /\ classList = {}
     /\ "scroll" \in listeners /\ readyState # "loading") =>
    \A role \in PresentSpacers :
      dimensions[DimensionKey(role)] # 0 =>
        \A y \in ScrollPositions, v \in Viewports, y2 \in ScrollPositions :
          \E last \in {AfterScroll(AfterResize(AfterScroll(World, y), v), y2)} :
            "scroll-up" \in last.classList =>
              last.style[elements[role]].width = Px(dimensions[DimensionKey(role)])

(* C19: on a controller whose construction failed or that was destroyed,    *)
(* updateConfig changes only the configuration record: no inline style and  *)
(* no class is written, whatever the partial, transitionDuration included.  *)
C19_UpdateConfigOnInertControllerWritesNoStyle ==
  [][\A newConfig \in Partials :
       ((ConstructionFailed \/ destroyed) /\ UpdateConfig(newConfig))
       => UNCHANGED <<classList, style, elements, dimensions, scrollState, listeners>>]_vars

(* C20: a scroll event that leaves window.scrollY at lastScrollY changes    *)
(* neither the visual state nor lastScrollY, for every scrollThreshold the  *)
(* constructor or updateConfig can set, 0 included.                         *)
C20_ScrollWithoutMovementChangesNothing ==
  [][\A y \in {scrollState.lastScrollY} :
       (scrollState.isInitialized /\ ScrollEvent(y))
       => /\ VisualState' = VisualState
          /\ scrollState'.lastScrollY = scrollState.lastScrollY]_vars

(* C17: getScrollState() and getConfig() change nothing of the controller   *)
(* or the page, and the record each returns is a copy: a write to a field   *)
(* of a returned record changes nothing of the controller or the page, so   *)
(* the accessors return afterwards what they returned before and every      *)
(* later handler starts from the same state.                                *)
C17_AccessorsReturnSeparateCopies ==
  [][ /\ (GetScrollState \/ GetConfig) => UNCHANGED programVars
      /\ (\E field \in held'.written \ held.written : CallerWrites(field))
         => /\ UNCHANGED programVars
            /\ getScrollState(World)' = getScrollState(World)
            /\ getConfig(World)' = getConfig(World)
            /\ \A y \in ScrollPositions : AfterScroll(World, y)' = AfterScroll(World, y)
    ]_vars

\* a destroyed controller whose caller got the configuration record and
\* wrote two of its fields, while the controller's configuration is the default
C17_Witness ==
  /\ destroyed
  /\ held.of = "config"
  /\ held.written = {"scrollThreshold", "containerSelector"}
  /\ config = DefaultConfig

\* a live controller, used since, whose caller wrote lastScrollY in a scroll
\* state record it got
C17_ScrollStateWitness ==
  /\ scrollState.isInitialized
  /\ held.of = "scrollState"
  /\ held.written = {"lastScrollY"}
  /\ classList # {}

====
